---- MODULE Spec2Model ----
(***************************************************************************)
(* NanoDet post-processing (workspace/inference/openvino_2025):            *)
(* PostProcessor.__init__ / process and the helpers they call, as a state  *)
(* machine over one PostProcessor object and the frame being decoded.      *)
(*                                                                         *)
(* Numbers.  float32 tensors are modelled by exact rationals plus a NaN    *)
(* value: [nan |-> BOOLEAN, n |-> numerator, d |-> denominator > 0], kept  *)
(* in lowest terms.  Arithmetic propagates NaN and every ordered           *)
(* comparison with a NaN operand is false, as in IEEE-754.  Rounding of    *)
(* float32 is not modelled.                                                *)
(*                                                                         *)
(* Logits.  A logit is [kind |-> "fin" | "nan" | "pinf" | "ninf", k |-> i] *)
(* and the finite value it stands for is k * ln 2, so that exp, softmax    *)
(* and sigmoid of it are exact rationals (exp(k ln 2) = 2^k).              *)
(***************************************************************************)
EXTENDS Integers, Sequences, FiniteSets, TLC

VARIABLES
    pc,                        \* "start" | "ready" | "returned" | "raised"
    self,                      \* the PostProcessor object (fields of __init__)
    op,                        \* which method the frame called: "none" | "process" | "_multiclass_nms"
    raw_output,                \* process argument: [channels, rows]
    original_image_shape,      \* process argument: <<height, width, 3>>
    bboxes,                    \* process local / _multiclass_nms argument multi_bboxes
    scores_for_nms,            \* process local / _multiclass_nms argument multi_scores
    nms,                       \* locals and return value of _multiclass_nms
    final_output_for_overlay,  \* the returned mapping class index -> list of [box, score]
    error,                     \* the exception raised: "none" | "RuntimeError" | "KeyError"
    frame_pos                  \* frames read from the video so far (cap.read())

vars == <<pc, self, op, raw_output, original_image_shape, bboxes,
          scores_for_nms, nms, final_output_for_overlay, error, frame_pos>>

----------------------------------------------------------------------------
(* float32 values *)

NaN == [nan |-> TRUE, n |-> 0, d |-> 1]

Abs(i) == IF i < 0 THEN -i ELSE i

RECURSIVE Gcd(_, _)
Gcd(a, b) == IF b = 0 THEN a ELSE Gcd(b, a % b)

\* the value n/d (d > 0) in lowest terms
Frac(n, d) ==
    LET g == Gcd(Abs(n), d)
    IN  [nan |-> FALSE, n |-> n \div g, d |-> d \div g]

Num(i) == Frac(i, 1)

IsNaN(a) == a.nan

FAdd(a, b) ==
    IF a.nan \/ b.nan THEN NaN ELSE Frac(a.n * b.d + b.n * a.d, a.d * b.d)

FSub(a, b) ==
    IF a.nan \/ b.nan THEN NaN ELSE Frac(a.n * b.d - b.n * a.d, a.d * b.d)

FMul(a, b) ==
    IF a.nan \/ b.nan THEN NaN ELSE Frac(a.n * b.n, a.d * b.d)

\* a / b; 0/0 is NaN.  (x/0 with x # 0 is +-Infinity in float32; no division
\* of the modelled code produces it: the only divisor is a union area, and
\* the dividend, an intersection area, is 0 whenever the union is.)
FDiv(a, b) ==
    IF a.nan \/ b.nan \/ b.n = 0 THEN NaN
    ELSE IF b.n > 0 THEN Frac(a.n * b.d, a.d * b.n)
    ELSE Frac(-(a.n * b.d), a.d * (-b.n))

\* ordered comparisons: false when an operand is NaN
FLt(a, b) == ~a.nan /\ ~b.nan /\ a.n * b.d < b.n * a.d
FLe(a, b) == ~a.nan /\ ~b.nan /\ a.n * b.d <= b.n * a.d
FGt(a, b) == FLt(b, a)

\* std::max / std::min of the NMS kernel: max(a, b) is (a < b) ? b : a
StdMax(a, b) == IF FLt(a, b) THEN b ELSE a
StdMin(a, b) == IF FLt(b, a) THEN b ELSE a

\* Tensor.clamp(min, max) and np.clip: NaN stays NaN
Clamp(x, lo, hi) ==
    IF x.nan THEN NaN
    ELSE IF FLt(x, lo) THEN lo
    ELSE IF FGt(x, hi) THEN hi
    ELSE x

\* Tensor.max() over a non-empty sequence of values: NaN if any is NaN
RECURSIVE TensorMax(_)
TensorMax(s) ==
    IF Len(s) = 1 THEN s[1]
    ELSE LET m == TensorMax(Tail(s))
         IN  IF s[1].nan \/ m.nan THEN NaN
             ELSE IF FLt(s[1], m) THEN m ELSE s[1]

RECURSIVE Pow2(_)
Pow2(k) == IF k <= 0 THEN 1 ELSE 2 * Pow2(k - 1)

----------------------------------------------------------------------------
(* logits *)

Fin(k) == [kind |-> "fin", k |-> k]
LNaN   == [kind |-> "nan", k |-> 0]
LPInf  == [kind |-> "pinf", k |-> 0]
LNInf  == [kind |-> "ninf", k |-> 0]

IsFiniteLogit(l) == l.kind = "fin"

\* Tensor.sigmoid: 1 / (1 + exp(-x)); exp(-k ln 2) = 2^(-k)
Sigmoid(l) ==
    CASE l.kind = "nan"  -> NaN
      [] l.kind = "pinf" -> Num(1)
      [] l.kind = "ninf" -> Num(0)
      [] OTHER -> IF l.k >= 0 THEN Frac(Pow2(l.k), Pow2(l.k) + 1)
                  ELSE Frac(1, 1 + Pow2(-l.k))

RECURSIVE SumTo(_, _)
SumTo(f, n) == IF n = 0 THEN 0 ELSE f[n] + SumTo(f, n - 1)

\* F.softmax over one group g of reg_max + 1 logits followed by F.linear with
\* linspace(0, reg_max, reg_max + 1) = [0, 1, ..., reg_max]: the expectation
\* sum_i i * softmax_i.  softmax is exp(x_i - max) / sum_j exp(x_j - max):
\* a NaN logit, a +Infinity logit (inf - inf) or a group that is all
\* -Infinity (-inf - -inf) makes every softmax entry NaN; otherwise a
\* -Infinity logit has weight 0 and a finite one weight 2^(k_i - max), taken
\* here times 2^(max - min) to stay in the integers (the ratio is the same).
GroupExpectation(g) ==
    LET n    == Len(g)
        fin  == {i \in 1..n : g[i].kind = "fin"}
        bad  == \E i \in 1..n : g[i].kind \in {"nan", "pinf"}
        kmin == CHOOSE k \in {g[i].k : i \in fin} : \A i \in fin : k <= g[i].k
        w    == [i \in 1..n |-> IF i \in fin THEN Pow2(g[i].k - kmin) ELSE 0]
        iw   == [i \in 1..n |-> (i - 1) * w[i]]
    IN  IF bad \/ fin = {} THEN NaN
        ELSE Frac(SumTo(iw, n), SumTo(w, n))

\* _integral_distribution_project for one proposal: reg_preds is the row of
\* 4 * (reg_max + 1) regression logits, reshaped into 4 groups
\* (left, top, right, bottom)
IntegralDistributionProject(reg_preds, reg_max) ==
    LET group(j) == SubSeq(reg_preds, (j - 1) * (reg_max + 1) + 1, j * (reg_max + 1))
    IN  <<GroupExpectation(group(1)), GroupExpectation(group(2)),
          GroupExpectation(group(3)), GroupExpectation(group(4))>>

----------------------------------------------------------------------------
(* prior grid *)

\* _get_single_level_center_point flattening the grid column by column
GetSingleLevelCenterPointColumnMajor(featmap_size, stride) ==
    LET h == featmap_size[1]
        w == featmap_size[2]
        x_range == [c \in 1..w |-> Frac((2 * (c - 1) + 1) * stride, 2)]
        y_range == [r \in 1..h |-> Frac((2 * (r - 1) + 1) * stride, 2)]
        y == [i \in 1..(h * w) |-> y_range[((i - 1) % h) + 1]]
        x == [i \in 1..(h * w) |-> x_range[((i - 1) \div h) + 1]]
    IN  <<y, x>>

\* _get_single_level_center_point with flatten=True: the h*w points of one
\* level, row-major (meshgrid indexing "ij", then flatten), as <<y, x>> pairs
\* of sequences; x = (c + 0.5) * stride, y = (r + 0.5) * stride
GetSingleLevelCenterPoint(featmap_size, stride) ==
    LET h == featmap_size[1]
        w == featmap_size[2]
        x_range == [c \in 1..w |-> Frac((2 * (c - 1) + 1) * stride, 2)]
        y_range == [r \in 1..h |-> Frac((2 * (r - 1) + 1) * stride, 2)]
        y == [i \in 1..(h * w) |-> y_range[((i - 1) \div w) + 1]]
        x == [i \in 1..(h * w) |-> x_range[((i - 1) % w) + 1]]
    IN  <<y, x>>

\* the priors of level i: rows [x, y, stride, stride]
LevelPriors(strides, input_height, input_width, i) ==
    LET stride_val == strides[i]
        featmap == <<input_height \div stride_val, input_width \div stride_val>>
        yx == GetSingleLevelCenterPoint(featmap, stride_val)
    IN  [p \in 1..Len(yx[2]) |->
            [x |-> yx[2][p], y |-> yx[1][p],
             stride_x |-> Num(stride_val), stride_y |-> Num(stride_val)]]

RECURSIVE CatLevels(_, _, _, _)
CatLevels(strides, input_height, input_width, i) ==
    IF i > Len(strides) THEN <<>>
    ELSE LevelPriors(strides, input_height, input_width, i)
         \o CatLevels(strides, input_height, input_width, i + 1)

\* _generate_center_priors: torch.cat of the levels in the order of strides.
\* There is no check of the feature-map sizes: a level with
\* input_height // stride = 0 or input_width // stride = 0 contributes no rows.
GenerateCenterPriors(strides, input_height, input_width) ==
    CatLevels(strides, input_height, input_width, 1)

\* PostProcessor.__init__: stores its arguments and the prior grid
NewPostProcessor(strides, reg_max, input_width, input_height, score_thr, nms_iou_threshold, max_detections) ==
    [strides |-> strides,
     reg_max |-> reg_max,
     input_width |-> input_width,
     input_height |-> input_height,
     score_thr |-> score_thr,
     nms_cfg |-> [type |-> "nms", iou_threshold |-> nms_iou_threshold],
     max_detections |-> max_detections,
     center_priors |-> GenerateCenterPriors(strides, input_height, input_width)]

----------------------------------------------------------------------------
(* box decoding *)

\* _distance2bbox clamping x by max_shape[0] and y by max_shape[1]
DistanceToBboxShapeSwapped(points, distance, max_shape) ==
    <<Clamp(FSub(points[1], distance[1]), Num(0), Num(max_shape[1])),
      Clamp(FSub(points[2], distance[2]), Num(0), Num(max_shape[2])),
      Clamp(FAdd(points[1], distance[3]), Num(0), Num(max_shape[1])),
      Clamp(FAdd(points[2], distance[4]), Num(0), Num(max_shape[2]))>>

\* _distance2bbox for one row: points is <<x, y>>, distance is
\* <<left, top, right, bottom>>, max_shape is <<height, width>> or <<>> (None)
DistanceToBbox(points, distance, max_shape) ==
    LET x1 == FSub(points[1], distance[1])
        y1 == FSub(points[2], distance[2])
        x2 == FAdd(points[1], distance[3])
        y2 == FAdd(points[2], distance[4])
    IN  IF max_shape # <<>>
        THEN <<Clamp(x1, Num(0), Num(max_shape[2])),
               Clamp(y1, Num(0), Num(max_shape[1])),
               Clamp(x2, Num(0), Num(max_shape[2])),
               Clamp(y2, Num(0), Num(max_shape[1]))>>
        ELSE <<x1, y1, x2, y2>>

----------------------------------------------------------------------------
(* non-maximum suppression *)

\* the overlap the NMS kernel computes for a kept box a and a later box b:
\* inter / (area_a + area_b - inter), with w and h cut at 0 by std::max
KernelIoU(a, b) ==
    LET iarea == FMul(FSub(a[3], a[1]), FSub(a[4], a[2]))
        jarea == FMul(FSub(b[3], b[1]), FSub(b[4], b[2]))
        xx1 == StdMax(a[1], b[1])
        yy1 == StdMax(a[2], b[2])
        xx2 == StdMin(a[3], b[3])
        yy2 == StdMin(a[4], b[4])
        w == StdMax(Num(0), FSub(xx2, xx1))
        h == StdMax(Num(0), FSub(yy2, yy1))
        inter == FMul(w, h)
    IN  FDiv(inter, FSub(FAdd(iarea, jarea), inter))

\* scores.sort(stable, descending): the indices of rem by decreasing score,
\* equal scores in index order
RECURSIVE SortDescending(_, _)
SortDescending(scores, rem) ==
    IF rem = {} THEN <<>>
    ELSE LET i == CHOOSE i \in rem :
                    \A j \in rem : \/ FGt(scores[i], scores[j])
                                   \/ (scores[i] = scores[j] /\ i <= j)
         IN  <<i>> \o SortDescending(scores, rem \ {i})

\* the greedy pass: a box is kept unless a box kept before it overlaps it by
\* more than iou_threshold
RECURSIVE NmsLoop(_, _, _, _, _)
NmsLoop(boxes, order, iou_threshold, pos, keep) ==
    IF pos > Len(order) THEN keep
    ELSE LET j == order[pos]
             suppressed == \E q \in 1..Len(keep) :
                              FGt(KernelIoU(boxes[keep[q]], boxes[j]), iou_threshold)
         IN  NmsLoop(boxes, order, iou_threshold, pos + 1,
                     IF suppressed THEN keep ELSE Append(keep, j))

\* torchvision.ops.nms(boxes, scores, iou_threshold): the kept indices, by
\* decreasing score
TorchNms(boxes, scores, iou_threshold) ==
    NmsLoop(boxes, SortDescending(scores, 1..Len(scores)), iou_threshold, 1, <<>>)

RECURSIVE Flatten(_)
Flatten(rows) == IF rows = <<>> THEN <<>> ELSE Head(rows) \o Flatten(Tail(rows))

\* _batched_nms with the class shift left out (class_agnostic taken as true)
BoxesForNmsUnshifted(boxes, idxs, class_agnostic) == boxes

\* lines 95-100 of _batched_nms: every box shifted by
\* class index * (largest coordinate + 1), unless class_agnostic
BoxesForNms(boxes, idxs, class_agnostic) ==
    LET max_coordinate == IF Len(boxes) > 0 THEN TensorMax(Flatten(boxes)) ELSE Num(0)
        offsets == [i \in 1..Len(boxes) |->
                       FMul(Num(idxs[i]), FAdd(max_coordinate, Num(1)))]
    IN  IF class_agnostic THEN boxes
        ELSE [i \in 1..Len(boxes) |->
                 <<FAdd(boxes[i][1], offsets[i]), FAdd(boxes[i][2], offsets[i]),
                   FAdd(boxes[i][3], offsets[i]), FAdd(boxes[i][4], offsets[i])>>]

\* lines 108-110 of _batched_nms: (cat([boxes[keep], scores[keep]]), keep);
\* a det is <<x1, y1, x2, y2, score>>
GatherKept(boxes, scores, keep) ==
    [dets |-> [q \in 1..Len(keep) |-> Append(boxes[keep[q]], scores[keep[q]])],
     keep |-> keep]

\* dict.pop(key, default) and dict.pop(key) on a dict that holds key: the dict
\* without the key
Pop(d, key) == [k \in DOMAIN d \ {key} |-> d[k]]

\* _batched_nms popping its keys from the caller's dict (no copy)
NmsCfgPoppedInPlace(nms_cfg) == Pop(Pop(nms_cfg, "class_agnostic"), "iou_threshold")

\* lines 93-104 of _batched_nms, seen from the caller: nms_cfg_ is a copy,
\* the two pops empty the copy and the caller's dict is what it was
NmsCfgAfterBatchedNms(nms_cfg) ==
    LET copy == nms_cfg
        nms_cfg_ == Pop(Pop(copy, "class_agnostic"), "iou_threshold")
    IN  nms_cfg

\* _batched_nms: one NMS pass over the shifted boxes; nms_cfg holds no
\* "class_agnostic" key, so the argument decides
BatchedNms(boxes, scores, idxs, nms_cfg, class_agnostic) ==
    GatherKept(boxes, scores,
               TorchNms(BoxesForNms(boxes, idxs, class_agnostic), scores,
                        nms_cfg.iou_threshold))

\* the slice [:max_num + 1]
FirstNOffByOne(s, n) == IF Len(s) > n + 1 THEN SubSeq(s, 1, n + 1) ELSE s

\* s[:n]
FirstN(s, n) == IF Len(s) > n THEN SubSeq(s, 1, n) ELSE s

\* the threshold test written with >=
ValidMaskNotStrict(score, score_thr) == FLe(score_thr, score)

\* scores > score_thr for one cell of the score matrix
ValidMask(score, score_thr) == FGt(score, score_thr)

\* the (proposal, class) cells of valid_mask that are set, in row-major order
RECURSIVE ValidCells(_, _, _, _)
ValidCells(scores, num_classes, score_thr, f) ==
    IF f > Len(scores) * num_classes THEN <<>>
    ELSE LET i == ((f - 1) \div num_classes) + 1
             c == ((f - 1) % num_classes) + 1
         IN  IF ValidMask(scores[i][c], score_thr)
             THEN <<[row |-> i, col |-> c]>>
                  \o ValidCells(scores, num_classes, score_thr, f + 1)
             ELSE ValidCells(scores, num_classes, score_thr, f + 1)

NoNms ==
    [status |-> "none", selected_bboxes |-> <<>>, selected_scores |-> <<>>,
     selected_labels |-> <<>>, nms_keep |-> <<>>, keep |-> <<>>,
     dets |-> <<>>, labels |-> <<>>]

\* lines 134-142 of _multiclass_nms: masked_select of the expanded boxes and
\* of the scores, and the class column of each selected cell
Selected(multi_bboxes, rows, cells) ==
    [bboxes |-> [q \in 1..Len(cells) |->
                    multi_bboxes[IF Len(multi_bboxes) = Len(rows)
                                 THEN cells[q].row ELSE 1]],
     scores |-> [q \in 1..Len(cells) |-> rows[cells[q].row][cells[q].col]],
     labels |-> [q \in 1..Len(cells) |-> cells[q].col - 1]]

\* lines 153-157 of _multiclass_nms: the cap, applied to what _batched_nms
\* returned (b), and the labels of the kept candidates
CapDetections(sel, b, max_num) ==
    [status |-> "ok",
     selected_bboxes |-> sel.bboxes,
     selected_scores |-> sel.scores,
     selected_labels |-> sel.labels,
     nms_keep |-> b.keep,
     keep |-> IF max_num > 0 THEN FirstN(b.keep, max_num) ELSE b.keep,
     dets |-> IF max_num > 0 THEN FirstN(b.dets, max_num) ELSE b.dets,
     labels |-> [q \in 1..Len(IF max_num > 0 THEN FirstN(b.keep, max_num) ELSE b.keep) |->
                    sel.labels[b.keep[q]]]]

\* _multiclass_nms without the early return, _batched_nms without the numel
\* guard: boxes.max() of an empty tensor raises
SuppressSelectedUnguarded(sel, nms_cfg, max_num) ==
    IF Len(sel.labels) = 0
    THEN [NoNms EXCEPT !.status = "RuntimeError"]
    ELSE CapDetections(sel,
                       BatchedNms(sel.bboxes, sel.scores, sel.labels, nms_cfg, FALSE),
                       max_num)

\* lines 144-157 of _multiclass_nms: nothing selected returns empty tensors,
\* otherwise _batched_nms (whose pop of "iou_threshold" raises KeyError on a
\* dict without that key) and the cap
SuppressSelected(sel, nms_cfg, max_num) ==
    IF Len(sel.labels) = 0
    THEN [NoNms EXCEPT !.status = "ok"]
    ELSE IF "iou_threshold" \notin DOMAIN nms_cfg
    THEN [NoNms EXCEPT !.status = "KeyError"]
    ELSE CapDetections(sel,
                       BatchedNms(sel.bboxes, sel.scores, sel.labels, nms_cfg, FALSE),
                       max_num)

\* _multiclass_nms with multi_bboxes of shape (k, 4) and score_factors None.
\* multi_scores is [cols |-> number of columns, rows |-> the rows]; its last
\* column is the background.  expand() of the (k, 1, 4) boxes to
\* (n, num_classes, 4) raises RuntimeError unless k = n or k = 1.
\* status "ok" returns (dets, labels); the other fields are the locals.
MulticlassNms(multi_bboxes, multi_scores, score_thr, nms_cfg, max_num) ==
    IF /\ Len(multi_bboxes) # Len(multi_scores.rows)
       /\ Len(multi_bboxes) # 1
    THEN [NoNms EXCEPT !.status = "RuntimeError"]
    ELSE SuppressSelected(
             Selected(multi_bboxes, multi_scores.rows,
                      ValidCells(multi_scores.rows, multi_scores.cols - 1,
                                 score_thr, 1)),
             nms_cfg, max_num)

----------------------------------------------------------------------------
(* process *)

\* the rescaling with original_image_shape read as (width, height)
RescaleBoxShapeSwapped(box, shape, input_width, input_height) ==
    <<Clamp(FMul(box[1], Frac(shape[1], input_width)), Num(0), Num(shape[1])),
      Clamp(FMul(box[2], Frac(shape[2], input_height)), Num(0), Num(shape[2])),
      Clamp(FMul(box[3], Frac(shape[1], input_width)), Num(0), Num(shape[1])),
      Clamp(FMul(box[4], Frac(shape[2], input_height)), Num(0), Num(shape[2]))>>

\* lines 218-233 of process for one kept box: scale by original / input size,
\* then np.clip to the original image
RescaleBox(box, shape, input_width, input_height) ==
    LET original_h == shape[1]
        original_w == shape[2]
        scale_x == Frac(original_w, input_width)
        scale_y == Frac(original_h, input_height)
    IN  <<Clamp(FMul(box[1], scale_x), Num(0), Num(original_w)),
          Clamp(FMul(box[2], scale_y), Num(0), Num(original_h)),
          Clamp(FMul(box[3], scale_x), Num(0), Num(original_w)),
          Clamp(FMul(box[4], scale_y), Num(0), Num(original_h))>>

\* torch broadcasting of two leading dimensions: equal, or one of them is 1
Broadcastable(a, b) == a = b \/ a = 1 \/ b = 1
BroadcastSize(a, b) == IF a = 1 THEN b ELSE a

\* the grouping loop run from the last detection to the first
RECURSIVE PositionsOfReversed(_, _, _)
PositionsOfReversed(labels, l, q) ==
    IF q > Len(labels) THEN <<>>
    ELSE IF labels[q] = l THEN PositionsOfReversed(labels, l, q + 1) \o <<q>>
    ELSE PositionsOfReversed(labels, l, q + 1)

\* the positions q of labels that hold label l, in order
RECURSIVE PositionsOf(_, _, _)
PositionsOf(labels, l, q) ==
    IF q > Len(labels) THEN <<>>
    ELSE IF labels[q] = l THEN <<q>> \o PositionsOf(labels, l, q + 1)
    ELSE PositionsOf(labels, l, q + 1)

\* the rows of dets that carry label l, rescaled, as [x1, y1, x2, y2, score]
RowsOfLabel(dets, at, shape, input_width, input_height) ==
    [r \in 1..Len(at) |->
        Append(RescaleBox(dets[at[r]], shape, input_width, input_height),
               dets[at[r]][5])]

\* lines 218-254 of process: rescale the kept boxes and build the dict
\* label -> list of [x1, y1, x2, y2, score], in the order of dets
FinalOutput(dets, labels, shape, input_width, input_height) ==
    [l \in {labels[q] : q \in 1..Len(labels)} |->
        RowsOfLabel(dets, PositionsOf(labels, l, 1), shape, input_width, input_height)]

NoScores == [cols |-> 0, rows |-> <<>>]
NoRaw    == [channels |-> 0, rows |-> <<>>]
NoShape  == <<>>
EmptyMapping == [l \in {} |-> <<>>]

\* process scaling every proposal by the stride of the first prior
DecodeBoxesFirstStride(obj, raw) ==
    LET n == Len(raw.rows)
        p == Len(obj.center_priors)
        m == BroadcastSize(n, p)
    IN  [i \in 1..m |->
            LET prior == obj.center_priors[IF p = m THEN i ELSE 1]
                first == obj.center_priors[1]
                dist == IntegralDistributionProject(
                            Tail(raw.rows[IF n = m THEN i ELSE 1]), obj.reg_max)
            IN  DistanceToBbox(<<prior.x, prior.y>>,
                               <<FMul(dist[1], first.stride_x),
                                 FMul(dist[2], first.stride_x),
                                 FMul(dist[3], first.stride_x),
                                 FMul(dist[4], first.stride_x)>>,
                               <<obj.input_height, obj.input_width>>)]

\* lines 176-190 of process: integral projection of every row, times the
\* stride of the prior ((n, 4) broadcast with (p, 1)), then _distance2bbox
\* (the (p,) points broadcast with the distances)
DecodeBoxes(obj, raw) ==
    LET n == Len(raw.rows)
        p == Len(obj.center_priors)
        m == BroadcastSize(n, p)
    IN  [i \in 1..m |->
            LET prior == obj.center_priors[IF p = m THEN i ELSE 1]
                dist == IntegralDistributionProject(
                            Tail(raw.rows[IF n = m THEN i ELSE 1]), obj.reg_max)
            IN  DistanceToBbox(<<prior.x, prior.y>>,
                               <<FMul(dist[1], prior.stride_x),
                                 FMul(dist[2], prior.stride_x),
                                 FMul(dist[3], prior.stride_x),
                                 FMul(dist[4], prior.stride_x)>>,
                               <<obj.input_height, obj.input_width>>)]

\* lines 192-204 of process: sigmoid of channel 0 and a zero background column
ScoresForNms(raw) ==
    [cols |-> 2,
     rows |-> [i \in 1..Len(raw.rows) |-> <<Sigmoid(Head(raw.rows[i])), Num(0)>>]]

\* lines 208-254 of process, given what _multiclass_nms (out) returned
Finish(obj, shape, boxes, multi_scores, out) ==
    [error |-> IF out.status = "ok" THEN "none" ELSE out.status,
     bboxes |-> boxes,
     scores_for_nms |-> multi_scores,
     nms |-> out,
     final |-> IF out.status = "ok"
               THEN FinalOutput(out.dets, out.labels, shape,
                                obj.input_width, obj.input_height)
               ELSE EmptyMapping]

\* lines 208-214 of process
Suppress(obj, shape, boxes, multi_scores) ==
    Finish(obj, shape, boxes, multi_scores,
           MulticlassNms(boxes, multi_scores, obj.score_thr, obj.nms_cfg,
                         obj.max_detections))

\* reshape(n, 4, reg_max + 1) raises unless the regression channels number
\* 4 * (reg_max + 1); a tensor of no rows reshapes to anything
ReshapeOk(raw, reg_max) ==
    Len(raw.rows) = 0 \/ raw.channels - 1 = 4 * (reg_max + 1)

\* process(raw_output, original_image_shape): raw is [channels, rows].
\* A RuntimeError comes from reshape, from the broadcast of the (n, 4)
\* distances with the (p, 1) strides, or from expand() in _multiclass_nms.
ProcessFrame(obj, raw, shape) ==
    IF \/ ~ReshapeOk(raw, obj.reg_max)
       \/ ~Broadcastable(Len(raw.rows), Len(obj.center_priors))
    THEN [error |-> "RuntimeError", bboxes |-> <<>>, scores_for_nms |-> NoScores,
          nms |-> NoNms, final |-> EmptyMapping]
    ELSE Suppress(obj, shape, DecodeBoxes(obj, raw), ScoresForNms(raw))

----------------------------------------------------------------------------
(* inputs *)

\* proposals a mis-shaped raw_output may have beyond the prior count
MaxExtraRows == 1
\* rows of the tensors handed to _multiclass_nms directly
MaxBoxes == 2
\* frames of the input video
MaxFrames == 2

Half == Frac(1, 2)

Geometries ==
    { [strides |-> <<2>>,    w |-> 4, h |-> 4],     \* 2 x 2 cells
      [strides |-> <<2, 3>>, w |-> 4, h |-> 3],     \* 1 x 2 cells, then 1 x 1
      [strides |-> <<4>>,    w |-> 4, h |-> 4],     \* a single cell
      [strides |-> <<4, 8>>, w |-> 4, h |-> 4],     \* 4 // 8 = 0: an empty level
      [strides |-> <<4>>,    w |-> 4, h |-> 3] }    \* 3 // 4 = 0: no cell at all
RegMaxChoices == {1, 2}
MaxDetectionsChoices == {1, 3}
OriginalShapes == { <<6, 8, 3>>, <<2, 2, 3>> }

\* regression groups of reg_max + 1 logits
GUniform(r) == [i \in 1..(r + 1) |-> Fin(0)]
GConst(r, k) == [i \in 1..(r + 1) |-> Fin(k)]
GFar(r)     == [i \in 1..(r + 1) |-> IF i = r + 1 THEN Fin(3) ELSE Fin(0)]
GNear(r)    == [i \in 1..(r + 1) |-> IF i = 1 THEN Fin(3) ELSE Fin(0)]
GNaN(r)     == [i \in 1..(r + 1) |-> IF i = 1 THEN LNaN ELSE Fin(0)]

Row(cls, gl, gt, gr, gb) == <<cls>> \o gl \o gt \o gr \o gb

\* the rows a raw_output is made of, for a head with reg_max = r
Palette(r) ==
    { Row(Fin(3), GFar(r), GFar(r), GFar(r), GFar(r)),
      Row(Fin(1), GFar(r), GFar(r), GFar(r), GFar(r)),
      Row(Fin(1), GNear(r), GNear(r), GUniform(r), GUniform(r)),
      Row(Fin(0), GConst(r, 3), GConst(r, 3), GConst(r, 0 - 2), GUniform(r)),
      Row(Fin(2), GNaN(r), GUniform(r), GUniform(r), GUniform(r)),
      Row(LPInf, GConst(r, 0 - 2), GUniform(r), GConst(r, 3), GConst(r, 3)),
      Row(LNaN, GFar(r), GFar(r), GFar(r), GFar(r)) }

Tensor(r, rows) == [channels |-> 1 + 4 * (r + 1), rows |-> rows]

\* raw outputs offered to an object with p priors and reg_max r: every
\* well-shaped tensor over the palette, and tensors of one repeated row with
\* any proposal count from 1 to p + MaxExtraRows and either channel count
RawOutputs(p, r) ==
    { Tensor(r, rows) : rows \in [1..p -> Palette(r)] }
    \cup UNION { { Tensor(rr, [i \in 1..n |-> row]) :
                     n \in 1..(p + MaxExtraRows), row \in Palette(rr) } :
                 rr \in RegMaxChoices }

\* direct calls of _multiclass_nms: two foreground classes and the background
NmsBoxes ==
    { <<Num(0), Num(0), Num(2), Num(2)>>,
      <<Num(1), Num(0), Num(3), Num(2)>>,
      <<Num(0), Num(0), Num(2), Num(3)>> }
NmsScoreRows ==
    { <<s0, s1, Num(0)>> : s0 \in {Frac(1, 3), Frac(8, 9)},
                           s1 \in {Frac(1, 3), Frac(2, 3)} }
SeqsUpTo(S, n) == UNION { [1..k -> S] : k \in 1..n }

----------------------------------------------------------------------------
(* the state machine *)

NoObject ==
    [strides |-> <<>>, reg_max |-> 0, input_width |-> 0, input_height |-> 0,
     score_thr |-> Num(0), nms_cfg |-> [type |-> "nms", iou_threshold |-> Num(0)],
     max_detections |-> 0, center_priors |-> <<>>]

Idle ==
    /\ op = "none"
    /\ raw_output = NoRaw
    /\ original_image_shape = NoShape
    /\ bboxes = <<>>
    /\ scores_for_nms = NoScores
    /\ nms = NoNms
    /\ final_output_for_overlay = EmptyMapping
    /\ error = "none"

Init ==
    /\ pc = "start"
    /\ self = NoObject
    /\ frame_pos = 0
    /\ Idle

\* the object after a call that returned out from _multiclass_nms: process
\* and its helpers assign no attribute and run no in-place tensor operation on
\* center_priors; the one attribute they hand to code that pops keys is
\* nms_cfg, in _batched_nms, reached when something was selected
SelfAfterCall(obj, out) ==
    IF out.status = "ok" /\ Len(out.selected_labels) > 0
    THEN [obj EXCEPT !.nms_cfg = NmsCfgAfterBatchedNms(obj.nms_cfg)]
    ELSE obj

\* postprocessor = PostProcessor(...): __init__ has no failing path
Construct ==
    /\ pc = "start"
    /\ \E g \in Geometries, r \in RegMaxChoices, md \in MaxDetectionsChoices :
          self' = NewPostProcessor(g.strides, r, g.w, g.h, Half, Half, md)
    /\ pc' = "ready"
    /\ UNCHANGED <<op, raw_output, original_image_shape, bboxes,
                   scores_for_nms, nms, final_output_for_overlay, error,
                   frame_pos>>

\* one pass of the loop body: cap.read() gives a frame, then
\* detections = postprocessor.process(raw_output, original_frame.shape)
Process ==
    /\ pc = "ready"
    /\ frame_pos < MaxFrames
    /\ frame_pos' = frame_pos + 1
    /\ \E raw \in RawOutputs(Len(self.center_priors), self.reg_max),
          shape \in OriginalShapes :
          \E f \in {ProcessFrame(self, raw, shape)} :
              /\ raw_output' = raw
              /\ original_image_shape' = shape
              /\ bboxes' = f.bboxes
              /\ scores_for_nms' = f.scores_for_nms
              /\ nms' = f.nms
              /\ final_output_for_overlay' = f.final
              /\ error' = f.error
              /\ pc' = IF f.error = "none" THEN "returned" ELSE "raised"
              /\ self' = SelfAfterCall(self, f.nms)
    /\ op' = "process"

\* postprocessor._multiclass_nms(multi_bboxes, multi_scores, score_thr,
\* nms_cfg, max_num) called on its own, with the object's settings
CallMulticlassNms ==
    /\ pc = "ready"
    /\ \E mb \in SeqsUpTo(NmsBoxes, MaxBoxes), ms \in SeqsUpTo(NmsScoreRows, MaxBoxes) :
          \E out \in {MulticlassNms(mb, [cols |-> 3, rows |-> ms], self.score_thr,
                                    self.nms_cfg, self.max_detections)} :
              /\ bboxes' = mb
              /\ scores_for_nms' = [cols |-> 3, rows |-> ms]
              /\ nms' = out
              /\ error' = IF out.status = "ok" THEN "none" ELSE out.status
              /\ pc' = IF out.status = "ok" THEN "returned" ELSE "raised"
              /\ self' = SelfAfterCall(self, out)
    /\ op' = "_multiclass_nms"
    /\ UNCHANGED <<raw_output, original_image_shape, final_output_for_overlay,
                   frame_pos>>

\* the caller moves on to the next frame: the locals of the call are gone,
\* the object stays (after an exception too, when the caller catches it)
NextFrame ==
    /\ pc \in {"returned", "raised"}
    /\ pc' = "ready"
    /\ op' = "none"
    /\ raw_output' = NoRaw
    /\ original_image_shape' = NoShape
    /\ bboxes' = <<>>
    /\ scores_for_nms' = NoScores
    /\ nms' = NoNms
    /\ final_output_for_overlay' = EmptyMapping
    /\ error' = "none"
    /\ UNCHANGED <<self, frame_pos>>

Next == Construct \/ Process \/ CallMulticlassNms \/ NextFrame

Spec == Init /\ [][Next]_vars

----------------------------------------------------------------------------
(* construction alone, over more configurations *)

\* largest input_width and input_height
MaxSide == 6
\* largest number of strides
MaxLevels == 3

StrideChoices == {1, 2, 3, 4}
GridStrides == SeqsUpTo(StrideChoices, MaxLevels)

\* postprocessor = PostProcessor(...) with any of these strides and input sizes
ConstructGrid ==
    /\ pc = "start"
    /\ \E strides \in GridStrides, w \in 1..MaxSide, h \in 1..MaxSide :
          self' = NewPostProcessor(strides, 1, w, h, Half, Half, 1)
    /\ pc' = "ready"
    /\ UNCHANGED <<op, raw_output, original_image_shape, bboxes,
                   scores_for_nms, nms, final_output_for_overlay, error,
                   frame_pos>>

GridNext == ConstructGrid

GridSpec == Init /\ [][GridNext]_vars

----------------------------------------------------------------------------
(* vocabulary of the properties *)

Returned == pc = "returned"
Constructed == pc # "start"

BoxHasNaN(b) == \E c \in 1..4 : b[c].nan

Area(b) == FMul(FSub(b[3], b[1]), FSub(b[4], b[2]))

\* intersection area of two boxes; a box with a NaN coordinate overlaps nothing
IntersectionArea(a, b) ==
    IF BoxHasNaN(a) \/ BoxHasNaN(b) THEN Num(0)
    ELSE LET w == FSub(StdMin(a[3], b[3]), StdMax(a[1], b[1]))
             h == FSub(StdMin(a[4], b[4]), StdMax(a[2], b[2]))
         IN  IF FLt(Num(0), w) /\ FLt(Num(0), h) THEN FMul(w, h) ELSE Num(0)

\* intersection over union, zero for boxes that do not overlap
IoU(a, b) ==
    IF IntersectionArea(a, b) = Num(0) THEN Num(0)
    ELSE FDiv(IntersectionArea(a, b),
              FSub(FAdd(Area(a), Area(b)), IntersectionArea(a, b)))

\* the candidates (indices into the selected_* arrays) that survived NMS
Survivors == {nms.nms_keep[q] : q \in 1..Len(nms.nms_keep)}
Candidates == 1..Len(nms.selected_labels)

\* candidate k comes before candidate q in the stable descending score order
Before(k, q) ==
    \/ FGt(nms.selected_scores[k], nms.selected_scores[q])
    \/ (nms.selected_scores[k] = nms.selected_scores[q] /\ k < q)

\* candidate q was suppressed by a survivor of its own class
SuppressedBySameClass(q) ==
    \E k \in Survivors :
        /\ nms.selected_labels[k] = nms.selected_labels[q]
        /\ Before(k, q)
        /\ FGt(IoU(nms.selected_bboxes[k], nms.selected_bboxes[q]),
               self.nms_cfg.iou_threshold)

WellShaped ==
    /\ Len(raw_output.rows) = Len(self.center_priors)
    /\ raw_output.channels = 1 + 4 * (self.reg_max + 1)

----------------------------------------------------------------------------
(* C1 *)

\* C1: any two kept detections with the same class index have
\* IoU <= iou_threshold (IoU = intersection / union, 0 without overlap).
\* Fails: one selected box with a NaN coordinate makes max_coordinate NaN in
\* _batched_nms, every shifted box NaN, and nothing is suppressed.
KeptSameClassIoUBounded ==
    Returned =>
        \A i, j \in 1..Len(nms.dets) :
            (i < j /\ nms.labels[i] = nms.labels[j]) =>
                FLe(IoU(nms.dets[i], nms.dets[j]), self.nms_cfg.iou_threshold)

\* what does hold: the bound on every frame none of whose selected boxes has
\* a NaN coordinate
KeptPairsBoundedWithoutNaN ==
    (Returned /\ \A q \in Candidates : ~BoxHasNaN(nms.selected_bboxes[q])) =>
        \A i, j \in 1..Len(nms.dets) :
            (i < j /\ nms.labels[i] = nms.labels[j]) =>
                FLe(IoU(nms.dets[i], nms.dets[j]), self.nms_cfg.iou_threshold)

----------------------------------------------------------------------------
(* C2 *)

\* C2: suppression is class-aware: every candidate that _batched_nms drops
\* was dropped by a survivor of its own class that precedes it and overlaps
\* it, in raw coordinates, by more than iou_threshold; so a candidate is
\* never lost to a box of another class, whatever their overlap.
SuppressionIsClassAware ==
    Returned =>
        \A q \in Candidates : q \notin Survivors => SuppressedBySameClass(q)

\* two candidates with identical coordinates and different classes, both kept
IdenticalBoxesOfTwoClassesKept ==
    /\ Returned
    /\ \E q1, q2 \in Survivors :
          /\ nms.selected_labels[q1] # nms.selected_labels[q2]
          /\ nms.selected_bboxes[q1] = nms.selected_bboxes[q2]
    /\ \E q \in Candidates : q \notin Survivors

----------------------------------------------------------------------------
(* C3 *)

\* the cells of the score matrix that pass the threshold
PassingCells ==
    {c \in (1..Len(scores_for_nms.rows)) \X (1..(scores_for_nms.cols - 1)) :
        FGt(scores_for_nms.rows[c[1]][c[2]], self.score_thr)}

\* C3: filtering is strict and comes before suppression: the candidates
\* handed to NMS are exactly the cells with score > score_thr, every returned
\* detection has score > score_thr, and whatever was suppressed was
\* suppressed by such a candidate.
ScoreFilterStrictAndFirst ==
    Returned =>
        /\ Len(nms.selected_scores) = Cardinality(PassingCells)
        /\ \A q \in Candidates : FGt(nms.selected_scores[q], self.score_thr)
        /\ \A q \in 1..Len(nms.dets) : FGt(nms.dets[q][5], self.score_thr)
        /\ \A l \in DOMAIN final_output_for_overlay :
              \A r \in 1..Len(final_output_for_overlay[l]) :
                  FGt(final_output_for_overlay[l][r][5], self.score_thr)
        /\ \A q \in Candidates : q \notin Survivors => SuppressedBySameClass(q)

\* a frame with a proposal scoring exactly score_thr (dropped), a kept
\* detection and a suppressed candidate
BoundaryScoreDropped ==
    /\ Returned
    /\ op = "process"
    /\ \E i \in 1..Len(scores_for_nms.rows) : scores_for_nms.rows[i][1] = self.score_thr
    /\ Len(nms.dets) >= 1
    /\ \E q \in Candidates : q \notin Survivors

----------------------------------------------------------------------------
(* C4 *)

RECURSIVE TotalLength(_, _)
TotalLength(f, S) ==
    IF S = {} THEN 0
    ELSE LET l == CHOOSE l \in S : TRUE
         IN  Len(f[l]) + TotalLength(f, S \ {l})

MinOf(a, b) == IF a < b THEN a ELSE b

\* C4: with max_detections > 0 the detections of one call number at most
\* max_detections over all classes, and they are exactly the first
\* max_detections survivors of NMS, which are in score-descending order.
GlobalCapKeepsTopSurvivors ==
    (Returned /\ self.max_detections > 0) =>
        /\ Len(nms.dets) = MinOf(self.max_detections, Len(nms.nms_keep))
        /\ \A q \in 1..Len(nms.dets) :
              /\ nms.dets[q] = Append(nms.selected_bboxes[nms.nms_keep[q]],
                                      nms.selected_scores[nms.nms_keep[q]])
              /\ nms.labels[q] = nms.selected_labels[nms.nms_keep[q]]
        /\ \A q1, q2 \in 1..Len(nms.nms_keep) :
              q1 < q2 => FLe(nms.selected_scores[nms.nms_keep[q2]],
                             nms.selected_scores[nms.nms_keep[q1]])
        /\ op = "process" =>
              TotalLength(final_output_for_overlay, DOMAIN final_output_for_overlay)
                  = Len(nms.dets)
        /\ Len(nms.dets) <= self.max_detections

\* the cap acted: more survivors than max_detections, of two classes
CapDroppedSurvivors ==
    /\ Returned
    /\ Len(nms.nms_keep) > self.max_detections
    /\ \E q1, q2 \in Survivors : nms.selected_labels[q1] # nms.selected_labels[q2]

\* the cap acted inside process
CapDroppedSurvivorsInProcess ==
    /\ Returned
    /\ op = "process"
    /\ Len(nms.nms_keep) > self.max_detections

----------------------------------------------------------------------------
(* C5 *)

NoProposalPasses ==
    \A i \in 1..Len(raw_output.rows) :
        ~FGt(Sigmoid(Head(raw_output.rows[i])), self.score_thr)

\* C5: a well-shaped raw_output none of whose proposals scores above
\* score_thr makes process return the empty mapping, without an error.
NothingPassesGivesEmptyMapping ==
    (op = "process" /\ WellShaped /\ NoProposalPasses) =>
        /\ pc = "returned"
        /\ error = "none"
        /\ final_output_for_overlay = EmptyMapping

\* such a frame, with proposals in it
EmptyResultReturned ==
    /\ op = "process"
    /\ WellShaped
    /\ Len(raw_output.rows) >= 2
    /\ NoProposalPasses
    /\ pc = "returned"
    /\ final_output_for_overlay = EmptyMapping

----------------------------------------------------------------------------
(* C6 *)

RowIsFinite(row) == \A c \in 1..Len(row) : IsFiniteLogit(row[c])

\* the proposal (row of raw_output) behind the q-th detection of process
ProposalOf(q) ==
    ValidCells(scores_for_nms.rows, 1, self.score_thr, 1)[nms.keep[q]].row

\* C6: non-finite inference values fail the threshold: no detection of the
\* Result has a NaN score or coordinate, and no proposal with a non-finite
\* logit is kept.
\* Fails: a NaN (or +Infinity) regression logit gives a NaN coordinate while
\* the score still passes, and a +Infinity classification logit scores 1.
NonFiniteExcluded ==
    (Returned /\ op = "process" /\ WellShaped) =>
        /\ \A l \in DOMAIN final_output_for_overlay :
              \A r \in 1..Len(final_output_for_overlay[l]) :
                  \A c \in 1..5 : ~final_output_for_overlay[l][r][c].nan
        /\ \A q \in 1..Len(nms.dets) : RowIsFinite(raw_output.rows[ProposalOf(q)])

----------------------------------------------------------------------------
(* C7 *)

\* C7: no PostProcessor is constructed when some stride gives a zero-sized
\* feature map (construction fails with ConfigurationError instead).
\* Fails: __init__ and _generate_center_priors check nothing; the level is
\* silently empty.
NoObjectWithEmptyLevel ==
    Constructed =>
        \A i \in 1..Len(self.strides) :
            /\ self.input_height \div self.strides[i] > 0
            /\ self.input_width \div self.strides[i] > 0

----------------------------------------------------------------------------
(* C8 *)

\* C8: a process call whose raw_output has a proposal count other than the
\* prior count, or a channel count other than 1 + 4 * (reg_max + 1), fails;
\* it never returns a Result.
\* Fails: with a grid of one prior the (1, 1) strides and the (1,) points
\* broadcast against any number of proposals.
MisshapedCallFails ==
    (op = "process" /\ ~WellShaped) => (pc = "raised" /\ error # "none")

----------------------------------------------------------------------------
(* C9 *)

\* C9: every box process decodes with _distance2bbox and
\* max_shape = (input_height, input_width) from non-negative offsets (none of
\* its coordinates is NaN) has 0 <= x1 <= x2 <= input_width and
\* 0 <= y1 <= y2 <= input_height.
DecodedBoxesInsideCanvas ==
    op = "process" =>
        \A i \in 1..Len(bboxes) :
            ~BoxHasNaN(bboxes[i]) =>
                /\ FLe(Num(0), bboxes[i][1])
                /\ FLe(bboxes[i][1], bboxes[i][3])
                /\ FLe(bboxes[i][3], Num(self.input_width))
                /\ FLe(Num(0), bboxes[i][2])
                /\ FLe(bboxes[i][2], bboxes[i][4])
                /\ FLe(bboxes[i][4], Num(self.input_height))

\* a decoded box whose offsets reached outside a non-square canvas on every
\* side, next to one that stayed inside
BoxClippedOnEverySide ==
    /\ op = "process"
    /\ self.input_width # self.input_height
    /\ \E i \in 1..Len(bboxes) :
          bboxes[i] = <<Num(0), Num(0), Num(self.input_width), Num(self.input_height)>>
    /\ \E i \in 1..Len(bboxes) :
          /\ ~BoxHasNaN(bboxes[i])
          /\ FLt(Num(0), bboxes[i][1])
          /\ FLt(bboxes[i][4], Num(self.input_height))

----------------------------------------------------------------------------
(* C10 *)

\* v * original / input, clipped to [0, original]
ScaledAndClipped(v, original, input) ==
    Clamp(FDiv(FMul(v, Num(original)), Num(input)), Num(0), Num(original))

\* the position of detection q among the detections of its class
RankInClass(q) == Cardinality({k \in 1..q : nms.labels[k] = nms.labels[q]})

\* C10: with original_image_shape = (height, width), process returns every
\* kept box (x1, y1, x2, y2) as (x1*sx, y1*sy, x2*sx, y2*sy),
\* sx = width / input_width, sy = height / input_height, each clipped to
\* [0, width] or [0, height]; (10, 10, 50, 50) on a 320 x 320 input and a
\* 480 x 640 original becomes (20, 15, 100, 75).
KeptBoxesRescaled ==
    /\ RescaleBox(<<Num(10), Num(10), Num(50), Num(50)>>, <<480, 640, 3>>, 320, 320)
           = <<Num(20), Num(15), Num(100), Num(75)>>
    /\ (Returned /\ op = "process") =>
          \A q \in 1..Len(nms.dets) :
              LET out == final_output_for_overlay[nms.labels[q]][RankInClass(q)]
                  height == original_image_shape[1]
                  width == original_image_shape[2]
              IN  /\ out[1] = ScaledAndClipped(nms.dets[q][1], width, self.input_width)
                  /\ out[2] = ScaledAndClipped(nms.dets[q][2], height, self.input_height)
                  /\ out[3] = ScaledAndClipped(nms.dets[q][3], width, self.input_width)
                  /\ out[4] = ScaledAndClipped(nms.dets[q][4], height, self.input_height)
                  /\ out[5] = nms.dets[q][5]

\* a kept box returned with sx = 2 and sy = 3/2, fractional coordinates in it
BoxRescaledAnisotropically ==
    /\ Returned
    /\ op = "process"
    /\ original_image_shape = <<6, 8, 3>>
    /\ self.input_width = 4
    /\ self.input_height = 4
    /\ \E q \in 1..Len(nms.dets) :
          /\ ~BoxHasNaN(nms.dets[q])
          /\ nms.dets[q][3] # nms.dets[q][4]
          /\ final_output_for_overlay[0][q][3].d # 1

----------------------------------------------------------------------------
(* C11 *)

\* the position of entry q of labels among the entries with the same label
RankAmong(labels, q) == Cardinality({k \in 1..q : labels[k] = labels[q]})

\* result is the grouping of dets by labels: its keys are the labels that
\* occur, its lists hold as many rows as there are dets, every detection sits
\* in the list of its label at its rank among the detections of that label,
\* and the scores of every list do not increase
GroupedInKeepOrder(result, dets, labels, shape) ==
    /\ DOMAIN result = {labels[q] : q \in 1..Len(labels)}
    /\ TotalLength(result, DOMAIN result) = Len(dets)
    /\ \A q \in 1..Len(dets) :
          result[labels[q]][RankAmong(labels, q)]
              = Append(RescaleBox(dets[q], shape, self.input_width, self.input_height),
                       dets[q][5])
    /\ \A l \in DOMAIN result :
          \A r1, r2 \in 1..Len(result[l]) :
              r1 < r2 => FLe(result[l][r2][5], result[l][r1][5])

\* C11: the list process stores under each class index holds exactly the kept
\* detections of that class in NMS keep order, so its scores do not increase;
\* grouping drops, duplicates and reorders nothing.  The grouping of lines
\* 218-254 is also applied to what a two-class _multiclass_nms call returned.
ResultGroupsKeptInOrder ==
    /\ (Returned /\ op = "process") =>
          GroupedInKeepOrder(final_output_for_overlay, nms.dets, nms.labels,
                             original_image_shape)
    /\ (Returned /\ op = "_multiclass_nms") =>
          \A shape \in OriginalShapes :
              GroupedInKeepOrder(FinalOutput(nms.dets, nms.labels, shape,
                                             self.input_width, self.input_height),
                                 nms.dets, nms.labels, shape)

\* a Result whose class-0 list holds two detections of different scores, the
\* higher one from the later proposal
TwoDetectionsListedByScore ==
    /\ Returned
    /\ op = "process"
    /\ Len(nms.dets) >= 2
    /\ nms.keep[1] > nms.keep[2]
    /\ Len(final_output_for_overlay[0]) = Len(nms.dets)
    /\ FGt(final_output_for_overlay[0][1][5], final_output_for_overlay[0][2][5])

----------------------------------------------------------------------------
(* C12 *)

\* an object newly constructed from the settings self holds
FreshObject ==
    NewPostProcessor(self.strides, self.reg_max, self.input_width,
                     self.input_height, self.score_thr,
                     self.nms_cfg.iou_threshold, self.max_detections)

\* the call just made gave what the same call gives on a new object
SameAsOnFreshObject ==
    \E f \in {ProcessFrame(FreshObject, raw_output, original_image_shape)} :
        /\ final_output_for_overlay = f.final
        /\ error = f.error
        /\ nms = f.nms

\* C12: process keeps no state between calls: no step after construction
\* (a call that returns detections, returns nothing or raises, the move to the
\* next frame) changes the prior grid or a setting of the object, and every
\* process call, whatever calls came before it, gives the Result and the
\* outcome that the same raw_output and original_image_shape give on a newly
\* constructed object.
ProcessKeepsNoState ==
    /\ [][Constructed => self' = self]_vars
    /\ []((op = "process" /\ "iou_threshold" \in DOMAIN self.nms_cfg) =>
              SameAsOnFreshObject)

\* the second frame of the video returned detections, NMS having run, on an
\* object that is still what construction made it
SecondCallReturnedDetections ==
    /\ op = "process"
    /\ frame_pos = 2
    /\ Returned
    /\ Len(nms.dets) >= 1
    /\ Len(nms.selected_labels) > Len(nms.nms_keep)
    /\ self = FreshObject

----------------------------------------------------------------------------
(* C13 *)

\* rows and columns of level l of the object's grid
LevelRows(l) == self.input_height \div self.strides[l]
LevelCols(l) == self.input_width \div self.strides[l]

\* the number of priors of the levels before level l
RECURSIVE CellsBefore(_)
CellsBefore(l) ==
    IF l <= 1 THEN 0 ELSE CellsBefore(l - 1) + LevelRows(l - 1) * LevelCols(l - 1)

NonDegenerate == \A l \in 1..Len(self.strides) : LevelRows(l) > 0 /\ LevelCols(l) > 0

\* C13: with non-degenerate levels the prior grid is the concatenation, in the
\* order of strides, of one level per stride s of floor(input_height / s) rows
\* and floor(input_width / s) columns, row-major, the prior of (row r,
\* column c) being (x = (c + 0.5) s, y = (r + 0.5) s, s, s); its length is the
\* sum of rows * columns over the levels.
GridIsConcatenationOfLevels ==
    (Constructed /\ NonDegenerate) =>
        /\ Len(self.center_priors) = CellsBefore(Len(self.strides) + 1)
        /\ \A l \in 1..Len(self.strides) :
              \A r \in 0..(LevelRows(l) - 1), c \in 0..(LevelCols(l) - 1) :
                  self.center_priors[CellsBefore(l) + r * LevelCols(l) + c + 1]
                      = [x |-> Frac((2 * c + 1) * self.strides[l], 2),
                         y |-> Frac((2 * r + 1) * self.strides[l], 2),
                         stride_x |-> Num(self.strides[l]),
                         stride_y |-> Num(self.strides[l])]

\* a grid of three levels, the first with 3 rows of 2 columns
ThreeLevelGridBuilt ==
    /\ Constructed
    /\ NonDegenerate
    /\ Len(self.strides) = 3
    /\ LevelRows(1) = 3
    /\ LevelCols(1) = 2
    /\ LevelRows(2) * LevelCols(2) > LevelRows(3) * LevelCols(3)
    /\ Len(self.center_priors) = CellsBefore(4)

----------------------------------------------------------------------------
(* C14 *)

\* group j of the regression logits of proposal i of raw_output
RegressionGroup(i, j) ==
    SubSeq(Tail(raw_output.rows[i]),
           (j - 1) * (self.reg_max + 1) + 1, j * (self.reg_max + 1))

\* all logits of g are the same finite value
EqualLogits(g) ==
    /\ IsFiniteLogit(g[1])
    /\ \A c \in 1..Len(g) : g[c] = g[1]

\* reg_max / 2 times the stride of prior i
HalfRangeTimesStride(i) ==
    FMul(Frac(self.reg_max, 2), self.center_priors[i].stride_x)

\* logit values k (times ln 2) and reg_max values of the groups tried
LogitSpan == 3
RegMaxSpan == 7

\* C14: a regression group of reg_max + 1 equal logits, whatever their
\* (finite) value, decodes to the unscaled offset reg_max / 2, and process
\* multiplies the four offsets of proposal i by the stride of prior i: the box
\* of such a proposal lies reg_max / 2 * stride_i from its prior on that side
\* (before the clamp).  reg_max = 7 gives 3.5, and 28 on a stride of 8.
EqualLogitsDecodeToHalfRange ==
    /\ \A r \in 1..RegMaxSpan, k \in (0 - LogitSpan)..LogitSpan :
          GroupExpectation([c \in 1..(r + 1) |-> Fin(k)]) = Frac(r, 2)
    /\ FMul(GroupExpectation([c \in 1..8 |-> Fin(0)]), Num(8)) = Num(28)
    /\ (op = "process" /\ WellShaped /\ error = "none") =>
          \A i \in 1..Len(bboxes) :
              LET prior == self.center_priors[i]
                  off == HalfRangeTimesStride(i)
                  w == Num(self.input_width)
                  h == Num(self.input_height)
              IN  /\ EqualLogits(RegressionGroup(i, 1)) =>
                        bboxes[i][1] = Clamp(FSub(prior.x, off), Num(0), w)
                  /\ EqualLogits(RegressionGroup(i, 2)) =>
                        bboxes[i][2] = Clamp(FSub(prior.y, off), Num(0), h)
                  /\ EqualLogits(RegressionGroup(i, 3)) =>
                        bboxes[i][3] = Clamp(FAdd(prior.x, off), Num(0), w)
                  /\ EqualLogits(RegressionGroup(i, 4)) =>
                        bboxes[i][4] = Clamp(FAdd(prior.y, off), Num(0), h)

\* a frame on a grid of two strides whose proposals on either level have
\* groups of equal logits, of different values, decoded inside the canvas
EqualGroupsOnTwoStrides ==
    /\ op = "process"
    /\ WellShaped
    /\ error = "none"
    /\ \E i1, i2 \in 1..Len(bboxes) :
          /\ self.center_priors[i1].stride_x # self.center_priors[i2].stride_x
          /\ EqualLogits(RegressionGroup(i1, 3))
          /\ EqualLogits(RegressionGroup(i2, 3))
          /\ RegressionGroup(i1, 3) # RegressionGroup(i2, 3)
          /\ bboxes[i1][3] = FAdd(self.center_priors[i1].x, HalfRangeTimesStride(i1))
          /\ bboxes[i2][3] = FAdd(self.center_priors[i2].x, HalfRangeTimesStride(i2))
          /\ FLt(bboxes[i1][3], Num(self.input_width))
          /\ FLt(bboxes[i2][3], Num(self.input_width))

----------------------------------------------------------------------------
(* C15 *)

\* every coordinate of every candidate box is a number >= 0
CandidatesNonNegative ==
    \A q \in Candidates : \A c \in 1..4 : FLe(Num(0), nms.selected_bboxes[q][c])

\* greedy NMS over the candidates rem of one class, on the unshifted boxes:
\* the candidates are visited by decreasing score and one is kept unless a
\* candidate kept before overlaps it by more than iou_threshold
RECURSIVE GreedyKeep(_, _)
GreedyKeep(rem, kept) ==
    IF rem = {} THEN kept
    ELSE LET q == CHOOSE q \in rem : \A j \in rem \ {q} : Before(q, j)
             hit == \E k \in kept :
                        FGt(IoU(nms.selected_bboxes[k], nms.selected_bboxes[q]),
                            self.nms_cfg.iou_threshold)
         IN  GreedyKeep(rem \ {q}, IF hit THEN kept ELSE kept \cup {q})

CandidatesOfClass(l) == {q \in Candidates : nms.selected_labels[q] = l}

\* the survivors of NMS run on every class apart
PerClassSurvivors ==
    UNION { GreedyKeep(CandidatesOfClass(nms.selected_labels[q]), {}) : q \in Candidates }

\* C15: for candidates with non-negative coordinates the one greedy pass of
\* _batched_nms over the boxes shifted by class index * (max_coordinate + 1)
\* keeps the candidates that NMS run class by class on the raw boxes keeps,
\* and returns them in the order of a merge by descending score.
ShiftedPassEqualsPerClassNms ==
    (Returned /\ CandidatesNonNegative) =>
        /\ Survivors = PerClassSurvivors
        /\ Len(nms.nms_keep) = Cardinality(PerClassSurvivors)
        /\ \A q1, q2 \in 1..Len(nms.nms_keep) :
              q1 < q2 => Before(nms.nms_keep[q1], nms.nms_keep[q2])

\* candidates of two classes: a class with a suppressed candidate, and two
\* overlapping candidates of different classes that the shift keeps apart,
\* the later candidate ahead of the earlier one in the result
ShiftSeparatedOverlappingClasses ==
    /\ Returned
    /\ op = "_multiclass_nms"
    /\ CandidatesNonNegative
    /\ \E q \in Candidates : q \notin Survivors
    /\ \E q1, q2 \in 1..Len(nms.nms_keep) :
          /\ q1 < q2
          /\ nms.nms_keep[q1] > nms.nms_keep[q2]
          /\ nms.selected_labels[nms.nms_keep[q1]] # nms.selected_labels[nms.nms_keep[q2]]
          /\ FGt(IoU(nms.selected_bboxes[nms.nms_keep[q1]],
                     nms.selected_bboxes[nms.nms_keep[q2]]),
                 self.nms_cfg.iou_threshold)

====
